---- MODULE Spec2Model ----
(***************************************************************************)
(* Model of src/golang/main.go: the streaming record parser (processFile)  *)
(* and the per-language JSONL output router (writeRecordToJSONL).          *)
(*                                                                         *)
(* A Go string is a sequence of one-character strings.  A record           *)
(* (map[string]string) is a function from a finite set of strings to       *)
(* strings.  A file is the sequence of bytes appended to it.               *)
(***************************************************************************)
EXTENDS Integers, Sequences, FiniteSets, TLC

(***************************************************************************)
(* Bounds of the model.                                                    *)
(***************************************************************************)
\* number of newline-terminated lines the input stream may deliver
MaxLines == 3

(***************************************************************************)
(* package strings                                                         *)
(***************************************************************************)
UpperLetters == <<"A","B","C","D","E","F","G","H","I","J","K","L","M",
                  "N","O","P","Q","R","S","T","U","V","W","X","Y","Z">>
LowerLetters == <<"a","b","c","d","e","f","g","h","i","j","k","l","m",
                  "n","o","p","q","r","s","t","u","v","w","x","y","z">>

\* the ASCII bytes that occur in the model, in ascending byte order
Ascii == <<"\t", "\n", "\r", " ", "\"", ",", "-", ".", "/",
           "0", "1", "2", "3", "4", "5", "6", "7", "8", "9", ":", "<">>
         \o UpperLetters \o <<"\\", "_">> \o LowerLetters \o <<"{", "}">>

\* bytes above the ASCII range, in ascending order, each written as one
\* element: 0xFF, which is part of no UTF-8 text, and the three bytes of the
\* UTF-8 form of U+FFFD
HighBytes == <<"0xBD", "0xBF", "0xEF", "0xFF">>

Bytes == Ascii \o HighBytes

Code(c) == CHOOSE i \in 1..Len(Bytes) : Bytes[i] = c

ToLower(c) ==
    IF \E i \in 1..Len(UpperLetters) : UpperLetters[i] = c
    THEN LowerLetters[CHOOSE i \in 1..Len(UpperLetters) : UpperLetters[i] = c]
    ELSE c

\* strings.EqualFold on the ASCII range
EqualFold(s, t) ==
    /\ Len(s) = Len(t)
    /\ \A i \in 1..Len(s) : ToLower(s[i]) = ToLower(t[i])

IsSpace(c) == c \in {" ", "\t", "\n", "\r"}

RECURSIVE TrimLeft(_)
TrimLeft(s) ==
    IF s # <<>> /\ IsSpace(Head(s)) THEN TrimLeft(Tail(s)) ELSE s

RECURSIVE TrimRight(_)
TrimRight(s) ==
    IF s # <<>> /\ IsSpace(s[Len(s)])
    THEN TrimRight(SubSeq(s, 1, Len(s) - 1))
    ELSE s

\* strings.TrimSpace
TrimSpace(s) == TrimRight(TrimLeft(s))

\* position of the first occurrence of byte c in s, 0 when there is none
IndexByte(s, c) ==
    IF \E i \in 1..Len(s) : s[i] = c
    THEN CHOOSE i \in 1..Len(s) : s[i] = c /\ \A j \in 1..(i - 1) : s[j] # c
    ELSE 0

\* strings.Split(s, sep) for a one-byte separator
RECURSIVE Split(_, _)
Split(s, sep) ==
    LET i == IndexByte(s, sep)
    IN  IF i = 0
        THEN <<s>>
        ELSE <<SubSeq(s, 1, i - 1)>> \o Split(SubSeq(s, i + 1, Len(s)), sep)

\* strings.Join(parts, sep)
RECURSIVE Join(_, _)
Join(parts, sep) ==
    IF parts = <<>> THEN <<>>
    ELSE IF Len(parts) = 1 THEN parts[1]
    ELSE parts[1] \o sep \o Join(Tail(parts), sep)

\* strings.ReplaceAll(s, old, new) for a one-byte old and new
ReplaceAll(s, old, new) ==
    [i \in 1..Len(s) |-> IF s[i] = old THEN new ELSE s[i]]

(***************************************************************************)
(* package path/filepath (Unix, relative paths)                            *)
(***************************************************************************)
\* the loop of filepath.Clean over the elements of a relative path
RECURSIVE CleanElems(_, _)
CleanElems(elems, out) ==
    IF elems = <<>> THEN out
    ELSE LET e == Head(elems)
         IN  IF e = <<>> \/ e = <<".">>
             THEN CleanElems(Tail(elems), out)
             ELSE IF e = <<".", ".">>
             THEN IF out # <<>> /\ out[Len(out)] # <<".", ".">>
                  THEN CleanElems(Tail(elems), SubSeq(out, 1, Len(out) - 1))
                  ELSE CleanElems(Tail(elems), Append(out, e))
             ELSE CleanElems(Tail(elems), Append(out, e))

\* filepath.Clean
Clean(p) ==
    LET out == CleanElems(Split(p, "/"), <<>>)
    IN  IF out = <<>> THEN <<".">> ELSE Join(out, <<"/">>)

\* filepath.Join(a, b)
FilepathJoin(a, b) ==
    IF a = <<>> /\ b = <<>> THEN <<>>
    ELSE IF a = <<>> THEN Clean(b)
    ELSE IF b = <<>> THEN Clean(a)
    ELSE Clean(a \o <<"/">> \o b)

(***************************************************************************)
(* package encoding/json: Encoder.Encode of a map[string]string with       *)
(* SetEscapeHTML(false)                                                    *)
(***************************************************************************)
\* byte-wise string order, the order in which the encoder emits map keys
RECURSIVE Less(_, _)
Less(s, t) ==
    IF t = <<>> THEN FALSE
    ELSE IF s = <<>> THEN TRUE
    ELSE IF Head(s) = Head(t) THEN Less(Tail(s), Tail(t))
    ELSE Code(Head(s)) < Code(Head(t))

RECURSIVE SortKeys(_)
SortKeys(S) ==
    IF S = {} THEN <<>>
    ELSE LET m == CHOOSE k \in S : \A o \in S \ {k} : Less(k, o)
         IN  <<m>> \o SortKeys(S \ {m})

\* no byte is escaped
EscapeByte_Raw(c) == <<c>>

\* the escape of one byte inside a JSON string; "<" is written as it is, a
\* byte that is not UTF-8 is written as the escape of U+FFFD
EscapeByte(c) ==
    IF c = "0xFF" THEN <<"\\", "u", "f", "f", "f", "d">>
    ELSE IF c = "\"" THEN <<"\\", "\"">>
    ELSE IF c = "\\" THEN <<"\\", "\\">>
    ELSE IF c = "\n" THEN <<"\\", "n">>
    ELSE IF c = "\r" THEN <<"\\", "r">>
    ELSE IF c = "\t" THEN <<"\\", "t">>
    ELSE <<c>>

RECURSIVE EscapeString(_)
EscapeString(s) ==
    IF s = <<>> THEN <<>> ELSE EscapeByte(Head(s)) \o EscapeString(Tail(s))

Quote(s) == <<"\"">> \o EscapeString(s) \o <<"\"">>

RECURSIVE EncodeMembers(_, _)
EncodeMembers(rec, keys) ==
    IF keys = <<>> THEN <<>>
    ELSE Quote(Head(keys)) \o <<":">> \o Quote(rec[Head(keys)])
         \o (IF Len(keys) > 1 THEN <<",">> ELSE <<>>)
         \o EncodeMembers(rec, Tail(keys))

\* the bytes one Encode call hands to the file: one object and a newline
Encode(rec) ==
    <<"{">> \o EncodeMembers(rec, SortKeys(DOMAIN rec)) \o <<"}", "\n">>

(***************************************************************************)
(* Config and the input alphabet                                           *)
(***************************************************************************)
\* the key writeRecordToJSONL reads: "WARC-Identified-Content-Language"
LanguageKey ==
    <<"W","A","R","C","-","I","d","e","n","t","i","f","i","e","d","-",
      "C","o","n","t","e","n","t","-","L","a","n","g","u","a","g","e">>

DataKey == <<"d","a","t","a">>

\* the values of config/config.json the model runs under
Configs ==
    { [ReservedWords |-> <<LanguageKey, <<"A">> >>,
       RecordStart   |-> <<"-","-","-">>],
      [ReservedWords |-> <<LanguageKey, <<"A">>, DataKey>>,
       RecordStart   |-> <<"-","-","-">>] }

\* baseOutputFolder: filepath.Join("data", "output")
DataDir == <<"d","a","t","a">>
OutputDir == FilepathJoin(DataDir, <<"o","u","t","p","u","t">>)

LowerLanguageKey == [i \in 1..Len(LanguageKey) |-> ToLower(LanguageKey[i])]

\* the newline-terminated lines the input stream may deliver
InputLines ==
    { <<"-","-","-","\n">>,
      <<"A",":"," ","1",":","2"," ","\n">>,
      <<"B",":"," ","0xFF","\n">>,
      <<" ","x","<","\n">>,
      LanguageKey \o <<":"," ","e","n",",","f","r","\r","\n">>,
      LowerLanguageKey \o <<":","d","e","\n">>,
      LanguageKey \o <<":",".",".","\n">>,
      DataKey \o <<":"," ","d","\n">> }

\* what may stand between the last newline and the end of the stream
Fragments ==
    { <<>>, <<"-","-","-">>, <<"A",":","9">>, <<"y">> }

(***************************************************************************)
(* Records: map[string]string                                              *)
(***************************************************************************)
\* make(map[string]string)
EmptyRecord == [k \in {} |-> <<>>]

\* m[k] on the right-hand side: the zero value when the key is absent
Get(m, k) == IF k \in DOMAIN m THEN m[k] ELSE <<>>

\* m[k] = v
Put(m, k, v) == [x \in DOMAIN m \cup {k} |-> IF x = k THEN v ELSE m[x]]

(***************************************************************************)
(* State                                                                   *)
(***************************************************************************)
VARIABLES
    pc,          \* where processFile stands: start, read, line, final, close, done
    err,         \* what processFile returns: "nil" or the kind of the error
    config,      \* the Config value processFile was called with
    line,        \* the line ReadString returned last
    tail,        \* the bytes ReadString returned together with io.EOF
    consumed,    \* the lines ReadString returned with a nil error, in order
    record,      \* the current record
    jsonlFiles,  \* the handle cache: output path -> index into handles
    handles,     \* every *os.File opened: its path and how often it was closed
    files,       \* the file system: path -> bytes of the file
    dirs,        \* the file system: the directories that exist
    mkdirFailed, \* whether some os.MkdirAll call of the run returned an error
    emitted,     \* the calls of writeRecordToJSONL, in order
    closeIter    \* the cache entries the closing loop has still to visit

vars == <<pc, err, config, line, tail, consumed, record, jsonlFiles, handles,
          files, dirs, mkdirFailed, emitted, closeIter>>

(***************************************************************************)
(* isReservedWord and the line classification of processFile               *)
(***************************************************************************)
isReservedWord(cfg, key) ==
    \E i \in 1..Len(cfg.ReservedWords) : EqualFold(cfg.ReservedWords[i], key)

\* strings.TrimSpace(line) != config.RecordStart, negated
IsRecordStart(cfg, l) == TrimSpace(l) = cfg.RecordStart

\* len(parts) >= 2 && isReservedWord(config, key)
IsFieldLine(cfg, l) ==
    LET parts == Split(l, ":")
    IN  Len(parts) >= 2 /\ isReservedWord(cfg, parts[1])

\* key := parts[0]
FieldKey(l) == Split(l, ":")[1]

\* value := strings.TrimSpace(strings.Join(parts[1:], ":"))
FieldValue(l) == TrimSpace(Join(Tail(Split(l, ":")), <<":">>))

\* an earlier value of the key is kept
StoreField_KeepFirst(rec, l) ==
    IF FieldKey(l) \in DOMAIN rec THEN rec ELSE Put(rec, FieldKey(l), FieldValue(l))

\* record[key] = value
StoreField(rec, l) == Put(rec, FieldKey(l), FieldValue(l))

\* record["data"] += line
AppendBody(rec, l) == Put(rec, DataKey, Get(rec, DataKey) \o l)

\* the non-sentinel branch of the loop body
ParseInto(cfg, rec, l) ==
    IF IsFieldLine(cfg, l) THEN StoreField(rec, l) ELSE AppendBody(rec, l)

\* the record is not cleared after a sentinel
NewRecord_Kept(rec) == rec

\* record = make(map[string]string) after a sentinel
NewRecord(rec) == EmptyRecord

(***************************************************************************)
(* writeRecordToJSONL                                                      *)
(***************************************************************************)
DefaultLanguage == <<"e","n","g">>

\* language := ReplaceAll(record[LanguageKey], ",", "_"), "eng" when empty
RoutingLanguage(rec) ==
    LET language == ReplaceAll(Get(rec, LanguageKey), ",", "_")
    IN  IF language = <<>> THEN DefaultLanguage ELSE language

OutputFolder(outputDir, rec) == FilepathJoin(outputDir, RoutingLanguage(rec))

OutputFileName == <<"o","u","t","p","u","t",".","j","s","o","n","l">>

OutputFile(outputDir, rec) ==
    FilepathJoin(OutputFolder(outputDir, rec), OutputFileName)

\* the opened handle is not put into the cache
CacheHandle_Dropped(cache, path, h) == cache

\* jsonlFiles[outputFile] = jsonlFile
CacheHandle(cache, path, h) == Put(cache, path, h)

\* how a Write of b on the file can end: all of b, nothing, or all but the
\* last byte followed by an error
WriteOutcomes == {"full", "none", "torn"}

Written(b, w) ==
    IF w = "full" THEN b
    ELSE IF w = "none" THEN <<>>
    ELSE SubSeq(b, 1, Len(b) - 1)

\* One call writeRecordToJSONL(rec, OutputDir, jsonlFiles) on the file-system
\* state fs; mkdirOk, openOk and w are what MkdirAll, OpenFile and Write do.
\* The result holds the returned error and the state after the call.
writeRecordToJSONL(rec, fs, mkdirOk, openOk, w) ==
    LET outputFolder == OutputFolder(OutputDir, rec)
        outputFile   == OutputFile(OutputDir, rec)
        dirs1   == IF mkdirOk THEN fs.dirs \cup {outputFolder} ELSE fs.dirs
        exists  == outputFile \in DOMAIN fs.jsonlFiles
        canOpen == openOk /\ outputFolder \in dirs1
        base    == [fs EXCEPT !.dirs = dirs1, !.file = outputFile,
                              !.mkdirErr = ~mkdirOk]
    IN  IF ~exists /\ ~canOpen
        THEN [base EXCEPT !.err = "open"]
        ELSE
        LET handles1 == IF exists THEN fs.handles
                        ELSE Append(fs.handles, [name |-> outputFile, closes |-> 0])
            h        == IF exists THEN fs.jsonlFiles[outputFile] ELSE Len(handles1)
            cache1   == IF exists THEN fs.jsonlFiles
                        ELSE CacheHandle(fs.jsonlFiles, outputFile, h)
            files1   == IF outputFile \in DOMAIN fs.files THEN fs.files
                        ELSE Put(fs.files, outputFile, <<>>)
            open     == handles1[h].closes = 0
            bytes    == IF open THEN Written(Encode(rec), w) ELSE <<>>
            name     == handles1[h].name
        IN  [base EXCEPT !.handles = handles1,
                         !.jsonlFiles = cache1,
                         !.files = Put(files1, name, Get(files1, name) \o bytes),
                         !.err = IF open /\ w = "full" THEN "nil" ELSE "write"]

\* the file-system state a call starts from
FsNow ==
    [dirs |-> dirs, files |-> files, jsonlFiles |-> jsonlFiles,
     handles |-> handles, err |-> "nil", file |-> <<>>, mkdirErr |-> FALSE]

(***************************************************************************)
(* processFile                                                             *)
(***************************************************************************)
Init ==
    /\ pc = "start"
    /\ err = "nil"
    /\ config \in Configs
    /\ line = <<>>
    /\ tail = <<>>
    /\ consumed = <<>>
    /\ record = EmptyRecord
    /\ jsonlFiles = EmptyRecord
    /\ handles = <<>>
    /\ files = EmptyRecord
    /\ dirs = {DataDir}
    /\ mkdirFailed = FALSE
    /\ emitted = <<>>
    /\ closeIter = {}

\* the error of writeRecordToJSONL is not looked at
Failed_Ignored(e) == FALSE

\* if err != nil { return err } after a writeRecordToJSONL call
Failed(e) == e # "nil"

\* a read error is treated like io.EOF: break
AfterReadError_Break == "final"

\* where a read error other than io.EOF leads: return err
AfterReadError == "done"

\* the handle is left open
CloseHandle_Skipped(hs, h) == hs

\* jsonlFile.Close()
CloseHandle(hs, h) == [hs EXCEPT ![h].closes = @ + 1]

\* os.Open and gzip.NewReader succeed
OpenInput ==
    /\ pc = "start"
    /\ pc' = "read"
    /\ UNCHANGED <<err, config, line, tail, consumed, record, jsonlFiles,
                   handles, files, dirs, mkdirFailed, emitted, closeIter>>

\* os.Open or gzip.NewReader returns an error
OpenInputFails ==
    /\ pc = "start"
    /\ pc' = "done"
    /\ err' = "input"
    /\ UNCHANGED <<config, line, tail, consumed, record, jsonlFiles,
                   handles, files, dirs, mkdirFailed, emitted, closeIter>>

\* reader.ReadString('\n') returns a line and a nil error
ReadLine ==
    /\ pc = "read"
    /\ Len(consumed) < MaxLines
    /\ \E l \in InputLines :
          /\ line' = l
          /\ consumed' = Append(consumed, l)
    /\ pc' = "line"
    /\ UNCHANGED <<err, config, tail, record, jsonlFiles, handles, files,
                   dirs, mkdirFailed, emitted, closeIter>>

\* reader.ReadString('\n') returns the rest of the stream and io.EOF: break
ReadEOF ==
    /\ pc = "read"
    /\ \E f \in Fragments :
          /\ line' = f
          /\ tail' = f
    /\ pc' = "final"
    /\ UNCHANGED <<err, config, consumed, record, jsonlFiles, handles, files,
                   dirs, mkdirFailed, emitted, closeIter>>

\* reader.ReadString('\n') returns another error: return err
ReadFails ==
    /\ pc = "read"
    /\ pc' = AfterReadError
    /\ err' = "read"
    /\ UNCHANGED <<config, line, tail, consumed, record, jsonlFiles, handles,
                   files, dirs, mkdirFailed, emitted, closeIter>>

\* the line is not the sentinel: a field or a body line
ParseLine ==
    /\ pc = "line"
    /\ ~IsRecordStart(config, line)
    /\ record' = ParseInto(config, record, line)
    /\ pc' = "read"
    /\ UNCHANGED <<err, config, line, tail, consumed, jsonlFiles, handles,
                   files, dirs, mkdirFailed, emitted, closeIter>>

\* the effect of one writeRecordToJSONL call on the state outside the parser
Route(r) ==
    /\ dirs' = r.dirs
    /\ files' = r.files
    /\ jsonlFiles' = r.jsonlFiles
    /\ handles' = r.handles
    /\ mkdirFailed' = (mkdirFailed \/ r.mkdirErr)
    /\ emitted' = Append(emitted, [rec |-> record, at |-> Len(consumed),
                                   eof |-> (pc = "final"),
                                   file |-> r.file, err |-> r.err])

\* the line is the sentinel: write the record, then clear it
EmitRecord ==
    /\ pc = "line"
    /\ IsRecordStart(config, line)
    /\ \E mkdirOk \in BOOLEAN, openOk \in BOOLEAN, w \in WriteOutcomes :
          LET r == writeRecordToJSONL(record, FsNow, mkdirOk, openOk, w)
          IN  /\ Route(r)
              /\ IF ~Failed(r.err)
                 THEN /\ record' = NewRecord(record)
                      /\ pc' = "read"
                      /\ err' = err
                 ELSE /\ record' = record
                      /\ pc' = "done"
                      /\ err' = r.err
    /\ UNCHANGED <<config, line, tail, consumed, closeIter>>

\* after the loop: write the last record, then start closing
FinalEmit ==
    /\ pc = "final"
    /\ \E mkdirOk \in BOOLEAN, openOk \in BOOLEAN, w \in WriteOutcomes :
          LET r == writeRecordToJSONL(record, FsNow, mkdirOk, openOk, w)
          IN  /\ Route(r)
              /\ IF ~Failed(r.err)
                 THEN /\ pc' = "close"
                      /\ err' = err
                      /\ closeIter' = DOMAIN r.jsonlFiles
                 ELSE /\ pc' = "done"
                      /\ err' = r.err
                      /\ closeIter' = closeIter
    /\ UNCHANGED <<config, line, tail, consumed, record>>

\* one iteration of "for _, jsonlFile := range jsonlFiles": jsonlFile.Close()
CloseFile ==
    /\ pc = "close"
    /\ \E p \in closeIter :
          /\ handles' = CloseHandle(handles, jsonlFiles[p])
          /\ closeIter' = closeIter \ {p}
    /\ UNCHANGED <<pc, err, config, line, tail, consumed, record, jsonlFiles,
                   files, dirs, mkdirFailed, emitted>>

\* return nil
Return ==
    /\ pc = "close"
    /\ closeIter = {}
    /\ pc' = "done"
    /\ UNCHANGED <<err, config, line, tail, consumed, record, jsonlFiles,
                   handles, files, dirs, mkdirFailed, emitted, closeIter>>

Next ==
    \/ OpenInput
    \/ OpenInputFails
    \/ ReadLine
    \/ ReadEOF
    \/ ReadFails
    \/ ParseLine
    \/ EmitRecord
    \/ FinalEmit
    \/ CloseFile
    \/ Return

Spec == Init /\ [][Next]_vars

(***************************************************************************)
(* Vocabulary of the properties                                            *)
(***************************************************************************)
HasColon(l) == IndexByte(l, ":") > 0

\* the text of a line before its first colon
BeforeColon(l) == SubSeq(l, 1, IndexByte(l, ":") - 1)

\* everything after the first colon of a line
AfterColon(l) == SubSeq(l, IndexByte(l, ":") + 1, Len(l))

IsSentinelLine(l) == TrimSpace(l) = config.RecordStart

MatchesReserved(k) ==
    \E i \in 1..Len(config.ReservedWords) : EqualFold(config.ReservedWords[i], k)

IsReservedFieldLine(l) ==
    ~IsSentinelLine(l) /\ HasColon(l) /\ MatchesReserved(BeforeColon(l))

IsBodyLine(l) == ~IsSentinelLine(l) /\ ~IsReservedFieldLine(l)

\* the lines of the input once the stream has ended: the terminated lines and
\* the unterminated last line, if there is one
AllLines == IF tail = <<>> THEN consumed ELSE Append(consumed, tail)

\* the number of lines whose loop body has run
Processed == IF pc = "line" THEN Len(consumed) - 1 ELSE Len(consumed)

RECURSIVE CountSentinels(_)
CountSentinels(ls) ==
    IF ls = <<>> THEN 0
    ELSE (IF IsSentinelLine(Head(ls)) THEN 1 ELSE 0) + CountSentinels(Tail(ls))

RECURSIVE Concat(_)
Concat(ls) == IF ls = <<>> THEN <<>> ELSE Head(ls) \o Concat(Tail(ls))

RECURSIVE SelectLines(_, _, _)
SelectLines(ls, i, S) ==
    IF i > Len(ls) THEN <<>>
    ELSE (IF i \in S THEN <<ls[i]>> ELSE <<>>) \o SelectLines(ls, i + 1, S)

\* the run returned nil and no system call of it failed
FaultFreeRun == pc = "done" /\ err = "nil" /\ ~mkdirFailed

\* the terminated lines between the boundary before emission j and the
\* boundary that caused emission j
SegmentOf(j) ==
    LET lo == IF j = 1 THEN 1 ELSE emitted[j - 1].at + 1
        hi == IF emitted[j].eof THEN emitted[j].at ELSE emitted[j].at - 1
    IN  SubSeq(consumed, lo, hi)

\* the processed lines after the last boundary
CurrentSegment ==
    SubSeq(consumed,
           IF emitted = <<>> THEN 1 ELSE emitted[Len(emitted)].at + 1,
           Processed)

(***************************************************************************)
(* C1                                                                      *)
(***************************************************************************)
\* C1: on a run without read or output fault the number of records handed to
\* writeRecordToJSONL is the number of sentinel lines of the input plus one.
C1_EmissionsAreSentinelsPlusOne ==
    FaultFreeRun => Len(emitted) = CountSentinels(AllLines) + 1

(***************************************************************************)
(* C2                                                                      *)
(***************************************************************************)
\* line l stores value v under key k
StoresField(l, k, v) ==
    HasColon(l) /\ BeforeColon(l) = k /\ TrimSpace(AfterColon(l)) = v

\* the body texts that can be put together from the lines of seg alone: the
\* value of a line keyed "data", or nothing, followed by later raw lines
BodiesOf(seg) ==
    { (IF i = 0 THEN <<>> ELSE TrimSpace(AfterColon(seg[i])))
        \o Concat(SelectLines(seg, 1, S)) :
      <<i, S>> \in { x \in (0..Len(seg)) \X SUBSET (1..Len(seg)) :
                       /\ \A n \in x[2] : n > x[1]
                       /\ x[1] > 0 => StoresField(seg[x[1]], DataKey,
                                          TrimSpace(AfterColon(seg[x[1]]))) } }

\* rec holds nothing but what the lines of seg give
BuiltOnlyFrom(rec, seg) ==
    /\ \A i \in 1..Len(seg) : ~IsSentinelLine(seg[i])
    /\ \A k \in DOMAIN rec \ {DataKey} :
          \E i \in 1..Len(seg) : StoresField(seg[i], k, rec[k])
    /\ DataKey \in DOMAIN rec => rec[DataKey] \in BodiesOf(seg)
    /\ seg = <<>> => rec = EmptyRecord

\* every processed sentinel line emitted once, the end of the stream at most
\* once and last
EmittedOncePerBoundary ==
    /\ \A i \in 1..Processed :
          IsSentinelLine(consumed[i]) =>
             Cardinality({j \in 1..Len(emitted) :
                            ~emitted[j].eof /\ emitted[j].at = i}) = 1
    /\ \A j \in 1..Len(emitted) :
          /\ ~emitted[j].eof =>
                /\ emitted[j].at \in 1..Len(consumed)
                /\ IsSentinelLine(consumed[emitted[j].at])
          /\ emitted[j].eof => j = Len(emitted) /\ emitted[j].at = Len(consumed)
          /\ j > 1 /\ ~emitted[j].eof => emitted[j - 1].at < emitted[j].at

\* C2: each emitted record is built only from the lines between the previous
\* boundary and the boundary that emits it, the current record holds only
\* lines read since the last sentinel, and each boundary hands one record to
\* the router exactly once.
C2_RecordBuiltFromItsSegment ==
    /\ EmittedOncePerBoundary
    /\ \A j \in 1..Len(emitted) : BuiltOnlyFrom(emitted[j].rec, SegmentOf(j))
    /\ pc \in {"read", "line", "final"} => BuiltOnlyFrom(record, CurrentSegment)

\* two consecutive non-empty records with no key in common were emitted
C2_Witness ==
    \E j \in 2..Len(emitted) :
       /\ emitted[j - 1].rec # EmptyRecord
       /\ emitted[j].rec # EmptyRecord
       /\ DOMAIN emitted[j - 1].rec \cap DOMAIN emitted[j].rec = {}

(***************************************************************************)
(* C3, C4                                                                  *)
(***************************************************************************)
\* the lines of the input that belong to the record of emission j: its
\* terminated lines and, for the record emitted at the end of the stream,
\* the unterminated last line
LinesOf(j) ==
    IF emitted[j].eof /\ tail # <<>> /\ ~IsSentinelLine(tail)
    THEN Append(SegmentOf(j), tail)
    ELSE SegmentOf(j)

\* line i is the last line of seg that sets its key
LastOfItsKey(seg, i) ==
    \A n \in (i + 1)..Len(seg) :
       ~(IsReservedFieldLine(seg[n]) /\ BeforeColon(seg[n]) = BeforeColon(seg[i]))

BodyLinesOf(seg) ==
    SelectLines(seg, 1, {i \in 1..Len(seg) : IsBodyLine(seg[i])})

\* C3: every non-sentinel line with a colon whose text before the first colon
\* matches a reserved word stores that text, in its casing, as a key with the
\* trimmed text after the first colon as value; no other line changes the
\* field mapping.
C3_ReservedLinesStoreFields ==
    FaultFreeRun =>
       \A j \in 1..Len(emitted) :
          LET seg == LinesOf(j)
              rec == emitted[j].rec
          IN  /\ \A i \in 1..Len(seg) :
                    /\ IsReservedFieldLine(seg[i])
                    /\ BeforeColon(seg[i]) # DataKey
                    /\ LastOfItsKey(seg, i)
                    => /\ BeforeColon(seg[i]) \in DOMAIN rec
                       /\ rec[BeforeColon(seg[i])] = TrimSpace(AfterColon(seg[i]))
              /\ \A k \in DOMAIN rec \ {DataKey} :
                    \E i \in 1..Len(seg) :
                       IsReservedFieldLine(seg[i]) /\ StoresField(seg[i], k, rec[k])

\* C4: when "data" is not reserved, the "data" value of every emitted record
\* is the concatenation, in input order, of the raw text of the lines of the
\* record that are neither the sentinel nor a reserved field.
C4_BodyIsTheNonFieldLines ==
    FaultFreeRun /\ ~MatchesReserved(DataKey) =>
       \A j \in 1..Len(emitted) :
          Get(emitted[j].rec, DataKey) = Concat(BodyLinesOf(LinesOf(j)))

(***************************************************************************)
(* C5                                                                      *)
(***************************************************************************)
\* the non-empty values a record holds for the language field, under any
\* casing of its name the parser accepts
LanguageValues(rec) ==
    {rec[k] : k \in {x \in DOMAIN rec : EqualFold(x, LanguageKey)}} \ {<<>>}

\* outputRoot / K / "output.jsonl"
DestinationOf(K) ==
    Clean(OutputDir \o <<"/">> \o K \o <<"/">> \o OutputFileName)

CommasToUnderscores(v) == [i \in 1..Len(v) |-> IF v[i] = "," THEN "_" ELSE v[i]]

\* C5: every record goes to outputRoot/K/output.jsonl, K being the value of
\* its language field with commas replaced by underscores, and "eng" when
\* the field is absent or empty.
C5_RoutedByLanguageField ==
    \A j \in 1..Len(emitted) :
       LET vs == LanguageValues(emitted[j].rec)
       IN  IF vs = {}
           THEN emitted[j].file = DestinationOf(DefaultLanguage)
           ELSE \E v \in vs : emitted[j].file = DestinationOf(CommasToUnderscores(v))

(***************************************************************************)
(* C6                                                                      *)
(***************************************************************************)
SomeHandleClosed == \E h \in 1..Len(handles) : handles[h].closes > 0

\* the end-of-stream record has been written
FinalRecordWritten ==
    /\ emitted # <<>>
    /\ emitted[Len(emitted)].eof
    /\ emitted[Len(emitted)].err = "nil"

\* C6: each destination path is opened at most once in a run and its handle
\* cached, so the number of opens is the number of distinct destinations
\* seen, and every cached handle stays open until the final close.
C6_OneOpenPerDestination ==
    /\ \A g, h \in 1..Len(handles) : g # h => handles[g].name # handles[h].name
    /\ Len(handles) =
          Cardinality({emitted[j].file :
                         j \in {n \in 1..Len(emitted) : emitted[n].err # "open"}})
    /\ DOMAIN jsonlFiles = {handles[h].name : h \in 1..Len(handles)}
    /\ \A q \in DOMAIN jsonlFiles : handles[jsonlFiles[q]].name = q
    /\ SomeHandleClosed => pc \in {"close", "done"} /\ FinalRecordWritten

\* two records went through one handle while another destination was open too
C6_Witness ==
    /\ Len(handles) = 2
    /\ \E j, n \in 1..Len(emitted) :
          /\ j < n
          /\ emitted[j].file = emitted[n].file
          /\ emitted[j].err = "nil" /\ emitted[n].err = "nil"

(***************************************************************************)
(* C7                                                                      *)
(***************************************************************************)
\* the emissions routed to path q that returned nil, in order
WrittenTo(q) ==
    SelectLines(emitted, 1,
                {j \in 1..Len(emitted) : emitted[j].file = q /\ emitted[j].err = "nil"})

RECURSIVE EncodeAll(_)
EncodeAll(es) ==
    IF es = <<>> THEN <<>> ELSE Encode(Head(es).rec) \o EncodeAll(Tail(es))

\* what path q holds when each record written to it is one whole line
ImageOf(q) == EncodeAll(WrittenTo(q))

CountByte(b, c) == Cardinality({i \in 1..Len(b) : b[i] = c})

\* C7: while no fault has occurred every emitted record is one line of
\* exactly one destination file, the lines of a file are in the order in
\* which the records were completed, and all records completed so far are
\* written whenever the parser is about to read a line.
C7_OneLinePerRecordInOrder ==
    err = "nil" =>
       /\ \A j \in 1..Len(emitted) : emitted[j].file \in DOMAIN files
       /\ \A q \in DOMAIN files :
             /\ files[q] = ImageOf(q)
             /\ CountByte(files[q], "\n") = Len(WrittenTo(q))
       /\ pc \in {"read", "final"} =>
             /\ Len(emitted) = CountSentinels(consumed)
             /\ \A j \in 1..Len(emitted) : emitted[j].err = "nil"

\* a finished fault-free run wrote two different records to one file, the
\* first of them with body text
C7_Witness ==
    /\ FaultFreeRun
    /\ \E j, n \in 1..Len(emitted) :
          /\ j < n
          /\ emitted[j].file = emitted[n].file
          /\ emitted[j].rec # emitted[n].rec
          /\ Get(emitted[j].rec, DataKey) # <<>>

(***************************************************************************)
(* C8                                                                      *)
(***************************************************************************)
\* an upper bound of the number of steps processFile has still to take
StepsLeft ==
    LET closing == MaxLines + 2
        reading == 2 * (MaxLines - Len(consumed))
    IN  CASE pc = "start" -> reading + closing + 5
          [] pc = "line"  -> reading + closing + 4
          [] pc = "read"  -> reading + closing + 3
          [] pc = "final" -> closing + 2
          [] pc = "close" -> Cardinality(closeIter) + 1
          [] OTHER        -> 0

\* processFile stands at a statement of its body: each of these has an
\* action of the model whose guard is that position alone (start, read,
\* final) or that position together with a case distinction that is
\* exhaustive (line: sentinel or not; close: entries left or not)
AtStatement == pc \in {"start", "read", "line", "final", "close"}

\* C8: processFile terminates (until it returns it stands at a statement it
\* can execute, and every step brings the return nearer); when it returns nil every cached handle has
\* been closed exactly once; a handle is closed only after the end-of-stream
\* record was written; nothing is written once a handle is closed.
C8_TerminatesWithHandlesClosedOnce ==
    /\ [](pc # "done" => AtStatement)
    /\ [][StepsLeft' < StepsLeft]_vars
    /\ [](pc = "done" /\ err = "nil" =>
             /\ \A h \in 1..Len(handles) : handles[h].closes = 1
             /\ DOMAIN jsonlFiles = {handles[h].name : h \in 1..Len(handles)}
             /\ FinalRecordWritten)
    /\ [](SomeHandleClosed => FinalRecordWritten)
    /\ [][SomeHandleClosed => emitted' = emitted /\ files' = files]_vars

\* a run returned nil with two handles in the cache
C8_Witness ==
    pc = "done" /\ err = "nil" /\ Len(handles) >= 2 /\ Len(emitted) >= 3

(***************************************************************************)
(* C9                                                                      *)
(***************************************************************************)
\* C9: after a read error processFile has returned, the in-flight record was
\* not handed to the router, every record written belongs to a sentinel read
\* before, and the files hold exactly the lines of those records.
C9_ReadErrorDiscardsInFlightRecord ==
    err = "read" =>
       /\ pc = "done"
       /\ Len(emitted) = CountSentinels(consumed)
       /\ \A j \in 1..Len(emitted) : ~emitted[j].eof /\ emitted[j].err = "nil"
       /\ \A q \in DOMAIN files : files[q] = ImageOf(q)

\* a read error hit while a non-empty record was in flight and output existed
C9_Witness ==
    /\ err = "read"
    /\ record # EmptyRecord
    /\ emitted # <<>>
    /\ emitted[1].rec # EmptyRecord

(***************************************************************************)
(* C10                                                                     *)
(***************************************************************************)
IsProperPrefix(a, b) == Len(a) < Len(b) /\ a = SubSeq(b, 1, Len(a))

\* path q holds the lines written before the failure and, on the file of the
\* failing record, at most a part of its line
UntouchedByFailure(q) ==
    LET last == emitted[Len(emitted)]
        img  == ImageOf(q)
    IN  \/ files[q] = img
        \/ /\ q = last.file
           /\ last.err = "write"
           /\ Len(files[q]) > Len(img)
           /\ SubSeq(files[q], 1, Len(img)) = img
           /\ IsProperPrefix(SubSeq(files[q], Len(img) + 1, Len(files[q])),
                             Encode(last.rec))

\* C10: a writeRecordToJSONL call that fails to open or to write is the last
\* call of the run: processFile returns its error without reading another
\* line, and the lines written before stay as they are.
C10_OutputFaultStopsTheRun ==
    /\ \A j \in 1..Len(emitted) :
          emitted[j].err # "nil" =>
             /\ j = Len(emitted)
             /\ pc = "done"
             /\ err = emitted[j].err
             /\ emitted[j].at = Len(consumed)
    /\ err \in {"open", "write"} =>
          /\ emitted # <<>>
          /\ emitted[Len(emitted)].err = err
          /\ \A q \in DOMAIN files : UntouchedByFailure(q)

\* a write failed after an earlier record had been written
C10_Witness ==
    /\ err = "write"
    /\ Len(emitted) >= 2
    /\ \E q \in DOMAIN files : ImageOf(q) # <<>>

(***************************************************************************)
(* C11                                                                     *)
(***************************************************************************)
\* the texts that stand before the first colon of a line of the input
FieldNames ==
    {SubSeq(l, 1, IndexByte(l, ":") - 1) :
       l \in {x \in InputLines \cup Fragments : IndexByte(x, ":") > 0}}

\* the reserved words that name a field, not the body
FieldWords ==
    UNION {{c.ReservedWords[i] : i \in 1..Len(c.ReservedWords)} : c \in Configs}
       \ {DataKey}

\* EqualFold between the field names of the input and the field words,
\* tabulated: the field words that name k matches
FoldsTo == [k \in FieldNames |-> {w \in FieldWords : EqualFold(w, k)}]

\* the field words of the run's configuration
FieldWordsOfRun ==
    {config.ReservedWords[i] : i \in 1..Len(config.ReservedWords)} \ {DataKey}

\* the lines of seg the parser stored under exactly the key k
StoredUnder(seg, k) ==
    {i \in 1..Len(seg) : HasColon(seg[i]) /\ BeforeColon(seg[i]) = k}

\* the lines of seg the parser stored under some casing of the field word w
StoredAs(seg, w) ==
    {i \in 1..Len(seg) : HasColon(seg[i]) /\ w \in FoldsTo[BeforeColon(seg[i])]}

Last(S) == CHOOSE i \in S : \A n \in S : n <= i

ReplacementChar == <<"0xEF", "0xBF", "0xBD">>

Undecodable == [ok |-> FALSE]

\* the byte a two-byte escape of a JSON string stands for
Unescaped(e) ==
    IF e = "n" THEN "\n"
    ELSE IF e = "r" THEN "\r"
    ELSE IF e = "t" THEN "\t"
    ELSE e

\* reads a JSON string of b whose opening quote stands before position i:
\* the text it denotes and the position after its closing quote
RECURSIVE ScanString(_, _, _)
ScanString(b, i, acc) ==
    IF i > Len(b) THEN Undecodable
    ELSE IF b[i] = "\"" THEN [ok |-> TRUE, str |-> acc, next |-> i + 1]
    ELSE IF b[i] \in {"\n", "\r", "\t"} THEN Undecodable
    ELSE IF b[i] = "0xFF" THEN ScanString(b, i + 1, acc \o ReplacementChar)
    ELSE IF b[i] # "\\" THEN ScanString(b, i + 1, Append(acc, b[i]))
    ELSE IF i + 1 > Len(b) THEN Undecodable
    ELSE IF b[i + 1] \in {"\"", "\\", "/", "n", "r", "t"}
         THEN ScanString(b, i + 2, Append(acc, Unescaped(b[i + 1])))
    ELSE IF b[i + 1] = "u" /\ i + 5 <= Len(b)
            /\ SubSeq(b, i + 2, i + 5) = <<"f", "f", "f", "d">>
         THEN ScanString(b, i + 6, acc \o ReplacementChar)
    ELSE IF b[i + 1] = "u" /\ i + 5 <= Len(b)
            /\ SubSeq(b, i + 2, i + 5) = <<"0", "0", "3", "c">>
         THEN ScanString(b, i + 6, Append(acc, "<"))
    ELSE Undecodable

\* reads the members of a JSON object of strings from position i of b
RECURSIVE ScanMembers(_, _, _)
ScanMembers(b, i, rec) ==
    IF i > Len(b) \/ b[i] # "\"" THEN Undecodable
    ELSE LET k == ScanString(b, i + 1, <<>>)
         IN  IF ~k.ok \/ k.next > Len(b) \/ b[k.next] # ":"
                \/ k.next + 1 > Len(b) \/ b[k.next + 1] # "\""
             THEN Undecodable
             ELSE LET v == ScanString(b, k.next + 2, <<>>)
                  IN  IF ~v.ok \/ v.next > Len(b) THEN Undecodable
                      ELSE IF b[v.next] = "}" /\ v.next = Len(b)
                           THEN [ok |-> TRUE, rec |-> Put(rec, k.str, v.str)]
                      ELSE IF b[v.next] = ","
                           THEN ScanMembers(b, v.next + 1, Put(rec, k.str, v.str))
                      ELSE Undecodable

\* the mapping a JSON decoder reads from the text b of one line
Decode(b) ==
    IF Len(b) < 2 \/ b[1] # "{" THEN Undecodable
    ELSE IF b = <<"{", "}">> THEN [ok |-> TRUE, rec |-> EmptyRecord]
    ELSE ScanMembers(b, 2, EmptyRecord)

\* the complete lines of a file, without their newlines
CompleteLines(b) ==
    LET parts == Split(b, "\n") IN SubSeq(parts, 1, Len(parts) - 1)

\* how often byte c stands in the keys and values of rec
RECURSIVE CountInRecord(_, _)
CountInRecord(rec, c) ==
    IF DOMAIN rec = {} THEN 0
    ELSE LET k == CHOOSE x \in DOMAIN rec : TRUE
         IN  CountByte(k, c) + CountByte(rec[k], c)
             + CountInRecord([x \in DOMAIN rec \ {k} |-> rec[x]], c)

\* C12: every complete line of a destination file is one JSON object that
\* decodes to exactly the record the parser accumulated, its keys and values
\* unchanged, and every "<" of the record stands unescaped in the line.
C12_LinesDecodeToTheRecords ==
    \A q \in DOMAIN files :
       LET ls == CompleteLines(files[q])
           ws == WrittenTo(q)
       IN  /\ Len(ls) = Len(ws)
           /\ \A n \in 1..Len(ls) :
                 /\ Decode(ls[n]) = [ok |-> TRUE, rec |-> ws[n].rec]
                 /\ CountByte(ls[n], "<") = CountInRecord(ws[n].rec, "<")

(***************************************************************************)
(* C13                                                                     *)
(***************************************************************************)
IsSuffix(a, b) == Len(a) <= Len(b) /\ a = SubSeq(b, Len(b) - Len(a) + 1, Len(b))

\* C13: a last line without a newline is classified like any other before
\* the end-of-stream emission: as the sentinel it causes an emission of its
\* own, as a reserved field it is stored in the last record, otherwise its
\* text ends the body of the last record.
C13_UnterminatedLastLineProcessed ==
    FaultFreeRun /\ tail # <<>> =>
       LET last == emitted[Len(emitted)].rec
       IN  IF IsSentinelLine(tail)
           THEN Len(emitted) = CountSentinels(consumed) + 2 /\ last = EmptyRecord
           ELSE IF IsReservedFieldLine(tail)
           THEN /\ BeforeColon(tail) \in DOMAIN last
                /\ last[BeforeColon(tail)] = TrimSpace(AfterColon(tail))
           ELSE IsSuffix(tail, Get(last, DataKey))

(***************************************************************************)
(* C14                                                                     *)
(***************************************************************************)
\* C14: a record in which the parser stored a non-empty language field,
\* under any casing of the field name it accepts, goes to the destination
\* named by a value of that field, commas replaced by underscores, and not
\* to the destination of the default "eng".
C14_LanguageFieldRoutesInAnyCasing ==
    \A j \in 1..Len(emitted) :
       LET vs == LanguageValues(emitted[j].rec)
       IN  vs # {} =>
              /\ emitted[j].file \in {DestinationOf(CommasToUnderscores(v)) : v \in vs}
              /\ emitted[j].file # DestinationOf(DefaultLanguage)

(***************************************************************************)
(* C15                                                                     *)
(***************************************************************************)
\* C15: when processFile has returned, with or without an error, every
\* handle it opened has been closed.
C15_AllHandlesClosedOnReturn ==
    pc = "done" => \A h \in 1..Len(handles) : handles[h].closes >= 1

(***************************************************************************)
(* C16                                                                     *)
(***************************************************************************)
\* C16: once a directory creation has failed the run is over: the call that
\* met the failure returned an error, it is the last call, and processFile
\* has returned that error.
C16_MkdirFailureIsFatal ==
    mkdirFailed =>
       /\ pc = "done"
       /\ err # "nil"
       /\ emitted[Len(emitted)].err = err

(***************************************************************************)
(* C17                                                                     *)
(***************************************************************************)
\* C17: in every configuration a processed line that is not the sentinel
\* leaves the value under "data" unchanged or extends it by the raw line.
C17_BodyIsAppendOnly ==
    [][pc = "line" /\ ~IsSentinelLine(line) =>
          \/ Get(record', DataKey) = Get(record, DataKey)
          \/ Get(record', DataKey) = Get(record, DataKey) \o line]_vars

(***************************************************************************)
(* C18                                                                     *)
(***************************************************************************)
\* the routing key of a record as writeRecordToJSONL derives it
RoutingKeyOf(rec) == RoutingLanguage(rec)

IsSingleName(K) ==
    K # <<>> /\ IndexByte(K, "/") = 0 /\ K # <<".">> /\ K # <<".", ".">>

\* C18: every file the router opens is outputRoot/K/output.jsonl with the
\* routing key K of the record as one directory name, and records with
\* different routing keys never share a file.
C18_FilesTwoLevelsBelowRoot ==
    /\ \A j \in 1..Len(emitted) :
          emitted[j].err # "open" =>
             LET K == RoutingKeyOf(emitted[j].rec)
             IN  /\ IsSingleName(K)
                 /\ emitted[j].file
                       = OutputDir \o <<"/">> \o K \o <<"/">> \o OutputFileName
    /\ \A j, n \in 1..Len(emitted) :
          RoutingKeyOf(emitted[j].rec) # RoutingKeyOf(emitted[n].rec)
             => emitted[j].file # emitted[n].file

====
